---- MODULE Spec2Model ----
(***************************************************************************)
(* Betting engine of the poker trainer (src/src/components/PokerIcon.tsx,  *)
(* component PokerTable; src/src/App.tsx holds the same engine with a      *)
(* simpler AI policy).                                                     *)
(*                                                                         *)
(* The component is a set of React state cells, event handlers, timers     *)
(* and effects.  One action of the model is one handler (a button intent,  *)
(* a timer callback) or one flush of the effects that React runs after a   *)
(* render whose dependencies changed.  State updates made in one handler   *)
(* are batched into one render; the effects of that render run before the  *)
(* next handler (renderPending).                                           *)
(*                                                                         *)
(* The auto-continue timer is cleared and re-armed by its effect on every  *)
(* change of the state it reads, so it is enabled exactly when its         *)
(* effect's condition holds on the current state.  The street-advance      *)
(* timer is never cleared: the number of pending ones is state             *)
(* (advanceTimers).  The AI thinking timer is kept as the seat it was      *)
(* armed for (aiTimerSeat); its effect re-runs, cleanup first, on every    *)
(* render that changed one of its dependencies.                            *)
(*                                                                         *)
(* Hand-strength scores are kept doubled (the source adds low * 0.5), so   *)
(* every score is an integer; 100 in the source is 200 here.  The implied  *)
(* odds of a draw (equity * 1.2) are kept in tenths.                       *)
(***************************************************************************)
EXTENDS Integers, Sequences, FiniteSets, TLC

\* ------------------------------------------------------------------ bounds
MaxHands == 2
MaxGames == 1
\* calls and raises of the human player that are counted in its statistics
MaxCounted == 3
\* hands of a game in which the blinds go up (the second level starts at
\* hand handsPerLevel + 1)
MaxBlindHands == 7

\* ------------------------------------------------------- program constants
NumSeats == 8
Seats == 0 .. (NumSeats - 1)

blindLevels ==
  << [sb |-> 25, bb |-> 50],   [sb |-> 50, bb |-> 100],
     [sb |-> 75, bb |-> 150],  [sb |-> 100, bb |-> 200],
     [sb |-> 150, bb |-> 300], [sb |-> 200, bb |-> 400],
     [sb |-> 300, bb |-> 600], [sb |-> 400, bb |-> 800],
     [sb |-> 500, bb |-> 1000], [sb |-> 750, bb |-> 1500] >>

handsPerLevel == 5

Min(a, b) == IF a <= b THEN a ELSE b
Max(a, b) == IF a >= b THEN a ELSE b

\* currentBlinds = blindLevels[Math.min(blindLevel, blindLevels.length - 1)]
currentBlinds(level) == blindLevels[Min(level, Len(blindLevels) - 1) + 1]

\* ------------------------------------------------------------------- cards
\* A card is a record [rank, suit]; rank is RANK_VALUES[rank] (2..14).
Cd(r, s) == [rank |-> r, suit |-> s]

RankSet(cs) == { cs[i].rank : i \in 1 .. Len(cs) }
RankCount(cs, r) == Cardinality({ i \in 1 .. Len(cs) : cs[i].rank = r })
SuitCount(cs, s) == Cardinality({ i \in 1 .. Len(cs) : cs[i].suit = s })

\* const suited = c1.suit === c2.suit
suitedFirst(c1, c2) == c1.suit = 0

isSuited(c1, c2) == c1.suit = c2.suit

\* getHandStrength, doubled
getHandStrength2(cards) ==
  IF Len(cards) < 2 THEN 0
  ELSE
    LET r1 == cards[1].rank
        r2 == cards[2].rank
        high == Max(r1, r2)
        low == Min(r1, r2)
        suited == isSuited(cards[1], cards[2])
        paired == r1 = r2
        gap == high - low
        strength ==
          IF paired
          THEN 2 * (50 + high * 3)
               + (IF high >= 10 THEN 40 ELSE 0)
               + (IF high >= 13 THEN 30 ELSE 0)
          ELSE 2 * high + low
               + (IF suited THEN 16 ELSE 0)
               + (IF gap = 1 THEN 12 ELSE IF gap = 2 THEN 6
                  ELSE IF gap = 3 THEN 2 ELSE 0)
               + (IF high >= 10 /\ low >= 10 THEN 30 ELSE 0)
               + (IF high = 14
                  THEN 20 + (IF low >= 10 THEN 20 ELSE 0) ELSE 0)
    IN Min(200, strength)

\* counts = Object.values(rankCounts).sort(desc): its first two entries
TopCounts(cs) ==
  LET rs == RankSet(cs)
      c0 == CHOOSE c \in { RankCount(cs, r) : r \in rs } :
              \A r \in rs : RankCount(cs, r) <= c
      top == { r \in rs : RankCount(cs, r) = c0 }
      rest == { RankCount(cs, r) : r \in rs \ top }
      c1 == IF Cardinality(top) >= 2 THEN c0
            ELSE IF rest = {} THEN 0
            ELSE CHOOSE c \in rest : \A d \in rest : d <= c
  IN << c0, c1 >>

\* number of loop indexes i with uniqueRanks[i + 4] - uniqueRanks[i] = 4
StraightRuns(cs) ==
  Cardinality({ r \in 2 .. 10 : \A k \in 0 .. 4 : (r + k) \in RankSet(cs) })

\* evaluateBoardStrength, doubled
evaluateBoardStrength2(holeCards, communityCards) ==
  IF Len(communityCards) = 0 THEN getHandStrength2(holeCards)
  ELSE
    LET allCards == holeCards \o communityCards
        counts == TopCounts(allCards)
        multi == IF counts[1] = 4 THEN 160
                 ELSE IF counts[1] = 3 /\ counts[2] = 2 THEN 140
                 ELSE IF counts[1] = 3 THEN 100
                 ELSE IF counts[1] = 2 /\ counts[2] = 2 THEN 60
                 ELSE IF counts[1] = 2 THEN 30
                 ELSE 0
        flush == IF \E s \in 0 .. 3 : SuitCount(allCards, s) >= 5
                 THEN 120 ELSE 0
        straight == 110 * StraightRuns(allCards)
    IN Min(200, getHandStrength2(holeCards) + multi + flush + straight)

\* communityCards.length === 0 || communityCards.length >= 5
drawZeroNoBoard(communityCards) == Len(communityCards) = 0

drawReturnsZero(communityCards) ==
  Len(communityCards) = 0 \/ Len(communityCards) >= 5

\* the count of the suit sorted first by suitCounts (b[1] - a[1])
maxSuitCount(cs) ==
  CHOOSE n \in 0 .. Len(cs) :
    /\ \A s \in 0 .. 3 : SuitCount(cs, s) <= n
    /\ \E s \in 0 .. 3 : SuitCount(cs, s) = n

\* some four sorted unique ranks span exactly 3
openEnded(ranks) ==
  \E r \in 2 .. 11 : \A k \in 0 .. 3 : (r + k) \in ranks

\* some target run of five has exactly four of its ranks (the ace also as 1)
gutshot(ranks) ==
  \E target \in 5 .. 14 :
    Cardinality({ r \in (target - 4) .. target :
                    r \in ranks \/ (r = 1 /\ 14 \in ranks) }) = 4

\* calculateDrawEquity; impliedOdds10 is impliedOdds in tenths
calculateDrawEquity(holeCards, communityCards) ==
  IF drawReturnsZero(communityCards)
  THEN [ flushOuts |-> 0, straightOuts |-> 0, totalOuts |-> 0, equity |-> 0,
         impliedOdds10 |-> 0 ]
  ELSE
    LET allCards == holeCards \o communityCards
        maxSuit == maxSuitCount(allCards)
        flushOuts == IF maxSuit = 4 THEN 9
                     ELSE IF maxSuit = 3 /\ Len(communityCards) <= 3 THEN 2
                     ELSE 0
        uniqueRanks == RankSet(allCards)
        straightOuts == IF openEnded(uniqueRanks) THEN 8
                        ELSE IF gutshot(uniqueRanks) THEN 4
                        ELSE 0
        totalOuts == flushOuts + straightOuts
                       - (IF flushOuts > 0 /\ straightOuts > 0 THEN 2 ELSE 0)
        multiplier == IF Len(communityCards) = 3 THEN 4 ELSE 2
        equity == Min(totalOuts * multiplier, 60)
    IN [ flushOuts |-> flushOuts, straightOuts |-> straightOuts,
         totalOuts |-> totalOuts, equity |-> equity,
         impliedOdds10 |-> equity * 12 ]

\* what the evaluation functions return for a hand
Evaluate(holeCards, communityCards) ==
  [ holeCards |-> holeCards, communityCards |-> communityCards,
    drawEquity |-> calculateDrawEquity(holeCards, communityCards),
    handStrength |-> getHandStrength2(holeCards),
    boardStrength |-> evaluateBoardStrength2(holeCards, communityCards) ]

\* createDeck: the shuffles the model draws from (the head of the deck;
\* a hand with k dealt-in seats uses 2k + 5 cards).
Decks ==
  { \* first dealt seat 7-2 offsuit, second pocket aces; dry board
    << Cd(2,0), Cd(7,1), Cd(14,0), Cd(14,1), Cd(9,2), Cd(4,3),
       Cd(13,2), Cd(8,0), Cd(3,1), Cd(11,3), Cd(6,2), Cd(10,0), Cd(5,1),
       Cd(12,0), Cd(2,2), Cd(7,3), Cd(9,0), Cd(4,1), Cd(13,3), Cd(8,2),
       Cd(3,3) >>,
    \* every dealt seat holds 7-2 offsuit: all scores are equal on any board
    << Cd(2,0), Cd(7,1), Cd(7,2), Cd(2,3), Cd(2,1), Cd(7,0),
       Cd(12,0), Cd(12,1), Cd(12,2), Cd(12,3), Cd(6,2), Cd(10,0), Cd(5,1),
       Cd(14,0), Cd(2,2), Cd(7,3), Cd(9,0), Cd(4,1), Cd(13,3), Cd(8,2),
       Cd(3,3) >> }

\* shuffles that deal the second seat pocket aces and the third pocket kings
\* (the first, the user when dealt in, 7-2 offsuit): both score 100 on every
\* board
PremiumDecks ==
  { << Cd(2,0), Cd(7,1), Cd(14,0), Cd(14,1), Cd(13,2), Cd(13,3),
       Cd(9,2), Cd(4,3), Cd(11,3), Cd(8,0), Cd(3,1), Cd(6,2), Cd(10,0),
       Cd(5,1), Cd(12,0), Cd(2,2), Cd(7,3), Cd(9,0), Cd(4,1), Cd(12,3),
       Cd(8,2) >> }

\* a deal that takes no card off the deck
dealNone(deck, count) == << << >>, deck >>

\* dealCards = deck.splice(0, count): << dealt cards, remaining deck >>
dealCards(deck, count) ==
  LET n == Min(count, Len(deck))
  IN << SubSeq(deck, 1, n), SubSeq(deck, n + 1, Len(deck)) >>

\* ------------------------------------------------------------------- state
VARIABLES
  players,        \* Player[]: seat -> record
  gameState,      \* GameState: pot, communityCards, street, currentBet, minRaise, deck
  dealerIndex,
  handNumber,
  blindLevel,
  gameStarted,
  replayMode,
  fullGameMode,
  handWinner,     \* seat named by the handWinner message, -1 for null
  gameWinner,     \* seat named by the gameWinner message, -1 for null
  advanceTimers,  \* pending setTimeout(() => advanceStreet(), 400) callbacks
  renderPending,  \* a render with changed players/gameState/... awaits its effects
  startChips,     \* history: total of the stacks the current hand started with
  newGames,       \* history: number of startNewGame calls
  playerStats,    \* playerStats['1']: the counters kept for the human player
  aiTimerSeat,    \* seat the armed AI thinking timer decides for, -1 if none
  aiStale,        \* a dependency of the AI effect changed since it last ran
  evaluated,      \* the hand last given to the evaluation functions, and their results
  lastOp          \* history: the operation the last step applied

vars == << players, gameState, dealerIndex, handNumber, blindLevel,
           gameStarted, replayMode, fullGameMode, handWinner, gameWinner,
           advanceTimers, renderPending, startChips, newGames,
           playerStats, aiTimerSeat, aiStale, evaluated, lastOp >>

\* lastOp: op names the operation, seat the seat it acted on, amount the
\* requested raise-to amount (the pot won, for an award).
Op(o, s, a) == [ op |-> o, seat |-> s, amount |-> a ]

Streets == { "preflop", "flop", "turn", "river", "showdown" }

\* Sum of f[s] over the seats in S
RECURSIVE SumOver(_, _)
SumOver(f, S) ==
  IF S = {} THEN 0
  ELSE LET s == CHOOSE x \in S : TRUE
       IN f[s] + SumOver(f, S \ {s})

TotalChips(pl) == SumOver([i \in Seats |-> pl[i].chips], Seats)

\* players.find(p => p.isActive) / findIndex: first active seat, -1 if none
ActiveIdx(pl) ==
  IF \E i \in Seats : pl[i].isActive
  THEN CHOOSE i \in Seats : pl[i].isActive /\ \A j \in Seats : pl[j].isActive => i <= j
  ELSE -1

\* prev.findIndex(p => p.isDealer)
DealerIdx(pl) ==
  IF \E i \in Seats : pl[i].isDealer
  THEN CHOOSE i \in Seats : pl[i].isDealer /\ \A j \in Seats : pl[j].isDealer => i <= j
  ELSE -1

\* -------------------------------------------------------------- hand start
\* a scan for the first to act that starts at the seat after the dealer
firstAfterDealer(baseChips, dealerIdx) ==
  LET hits == { i \in 0 .. 6 : baseChips[(dealerIdx + 1 + i) % 8] > 0 }
  IN IF hits = {} THEN -1
     ELSE (dealerIdx + 1 + (CHOOSE i \in hits : \A j \in hits : i <= j)) % 8

\* for (i = 0; i < 7; i++) { seatIdx = (dealerIdx + 3 + i) % 8; if chips > 0 ... }
firstToActIdx(baseChips, dealerIdx) ==
  LET hits == { i \in 0 .. 6 : baseChips[(dealerIdx + 3 + i) % 8] > 0 }
  IN IF hits = {} THEN -1
     ELSE (dealerIdx + 3 + (CHOOSE i \in hits : \A j \in hits : i <= j)) % 8

\* getPositionName: offset of the seat from the dealer (0 BTN, 1 SB, 2 BB, ...)
positionOffset(seatIndex, dealerIdx) == (seatIndex - dealerIdx + 8) % 8

\* initializeGame(existingChips, btnIndex) under blinds sb/bb and a shuffled deck
\* no seat is treated as eliminated
eliminatedNever(chips) == FALSE

\* isFolded: chips <= 0, hasActed: chips <= 0
isEliminated(chips) == chips <= 0

initializeGame(baseChips, dealerIdx, deck, blinds) ==
  LET first == firstToActIdx(baseChips, dealerIdx)
      dealtBefore(idx) == Cardinality({ j \in Seats : j < idx /\ baseChips[j] > 0 })
      deckAt(idx) == dealCards(deck, 2 * dealtBefore(idx))[2]
      mk(idx) ==
        LET chips == baseChips[idx]
            isSB == positionOffset(idx, dealerIdx) = 1
            isBB == positionOffset(idx, dealerIdx) = 2
            postSB == isSB /\ chips >= blinds.sb
            postBB == ~postSB /\ isBB /\ chips >= blinds.bb
        IN [ chips |-> IF postSB THEN chips - blinds.sb
                       ELSE IF postBB THEN chips - blinds.bb ELSE chips,
             currentBet |-> IF postSB THEN blinds.sb
                            ELSE IF postBB THEN blinds.bb ELSE 0,
             isActive |-> idx = first /\ chips > 0,
             isDealer |-> positionOffset(idx, dealerIdx) = 0,
             isFolded |-> isEliminated(chips),
             hasActed |-> isEliminated(chips),
             cards |-> IF chips > 0 THEN dealCards(deckAt(idx), 2)[1] ELSE << >> ]
      initialPlayers == [ idx \in Seats |-> mk(idx) ]
      sbBet == initialPlayers[(dealerIdx + 1) % 8].currentBet
      bbBet == initialPlayers[(dealerIdx + 2) % 8].currentBet
  IN [ players |-> initialPlayers,
       gameState |-> [ pot |-> sbBet + bbBet,
                       communityCards |-> << >>,
                       street |-> "preflop",
                       currentBet |-> blinds.bb,
                       minRaise |-> blinds.bb * 2,
                       deck |-> dealCards(deck, 2 * dealtBefore(NumSeats))[2] ],
       dealerIndex |-> dealerIdx ]

\* Tables a hand is started from: a full game in progress, some seats
\* eliminated (stack 0), the button on a seat that still holds chips.
ChipsOf(v) == [ i \in Seats |-> v[i + 1] ]

InitTables ==
  { [ chips |-> ChipsOf(<< 1000, 1000, 0, 0, 0, 0, 0, 0 >>), dealer |-> 0 ],
    [ chips |-> ChipsOf(<< 150, 200, 100, 0, 0, 0, 0, 0 >>), dealer |-> 0 ],
    [ chips |-> ChipsOf(<< 150, 0, 0, 200, 100, 0, 0, 0 >>), dealer |-> 0 ] }

\* the tables a game over several hands is started from
GameTables ==
  { [ chips |-> ChipsOf(<< 1000, 1000, 0, 0, 0, 0, 0, 0 >>), dealer |-> 0 ],
    [ chips |-> ChipsOf(<< 150, 25, 50, 0, 0, 0, 0, 0 >>), dealer |-> 0 ],
    \* the blind seats hold less than a blind: none is posted
    [ chips |-> ChipsOf(<< 150, 10, 20, 0, 0, 0, 0, 0 >>), dealer |-> 0 ] }

\* createEmptyStats(); the aggression factor is kept as a fraction
createEmptyStats ==
  [ handsPlayed |-> 0, preflopRaises |-> 0, bets |-> 0, raises |-> 0,
    calls |-> 0, folds |-> 0, aggNum |-> 1, aggDen |-> 1 ]

InitHand(tables, decks) ==
  \E t \in tables, deck \in decks :
    /\ LET g == initializeGame(t.chips, t.dealer, deck, currentBlinds(0))
       IN /\ players = g.players
          /\ gameState = g.gameState
          /\ dealerIndex = g.dealerIndex
    /\ handNumber = 1
    /\ blindLevel = 0
    /\ gameStarted = TRUE
    /\ replayMode = FALSE
    /\ fullGameMode = TRUE
    /\ handWinner = -1
    /\ gameWinner = -1
    /\ advanceTimers = 0
    /\ renderPending = TRUE
    /\ startChips = SumOver(t.chips, Seats)
    /\ newGames = 0
    /\ playerStats = createEmptyStats
    /\ aiTimerSeat = -1
    /\ aiStale = TRUE
    /\ lastOp = Op("start", -1, 0)

InitOf(tables) == InitHand(tables, Decks) /\ evaluated = Evaluate(<< >>, << >>)

Init == InitOf(InitTables)

InitGame == InitOf(GameTables)

\* ------------------------------------------------------------ processAction
\* while ((folded || chips === 0) && attempts < limit) { nextPos++; attempts++ }
\* started at pos with attempts = n: << nextPos, attempts >>
RECURSIVE SkipScan(_, _, _, _)
SkipScan(pl, pos, n, limit) ==
  IF (pl[pos].isFolded \/ pl[pos].chips = 0) /\ n < limit
  THEN SkipScan(pl, (pos + 1) % NumSeats, n + 1, limit)
  ELSE << pos, n >>

\* a call that puts in all that is owed, whatever the stack
callAmtOwed(cb, p) == cb - p.currentBet
\* const callAmt = Math.min(neededToCall, currentActive.chips)
callAmtOf(cb, p) == Min(cb - p.currentBet, p.chips)

\* a raise-to amount as processAction were it not to cap it
actualRaiseToUncapped(amount, p) == amount
\* const actualRaiseTo = Math.min(amount, maxRaiseTotal)
actualRaiseToOf(amount, p) == Min(amount, p.chips + p.currentBet)

\* if (actualRaiseTo > gameState.currentBet), inside the raise branch
reopensBetting(action, actualRaiseTo, cb) ==
  action = "raise" /\ actualRaiseTo > cb

\* The players updater of processAction: prev is the committed array, cb the
\* table current bet seen by the handler (gameState.currentBet of its render).
processPlayers(prev, cb, action, amount) ==
  LET playerIdx == ActiveIdx(prev)
      p == prev[playerIdx]
      callAmt == callAmtOf(cb, p)
      actualRaiseTo == actualRaiseToOf(amount, p)
      toAdd == actualRaiseTo - p.currentBet
      acted ==
        IF action = "fold" THEN [ p EXCEPT !.isFolded = TRUE ]
        ELSE IF action = "call"
        THEN [ p EXCEPT !.chips = p.chips - callAmt,
                        !.currentBet = p.currentBet + callAmt ]
        ELSE IF action = "raise"
        THEN [ p EXCEPT !.chips = p.chips - Max(0, toAdd),
                        !.currentBet = actualRaiseTo ]
        ELSE p
      player == [ acted EXCEPT !.hasActed = TRUE, !.isActive = FALSE ]
      reopen == reopensBetting(action, actualRaiseTo, cb)
      np1 == [ i \in Seats |->
                 IF i = playerIdx THEN player
                 ELSE IF reopen /\ ~prev[i].isFolded /\ prev[i].chips > 0
                 THEN [ prev[i] EXCEPT !.hasActed = FALSE ]
                 ELSE prev[i] ]
      activePlayers == { i \in Seats : ~np1[i].isFolded }
      scan == SkipScan(np1, (playerIdx + 1) % NumSeats, 0, 7)
      nextPos == scan[1]
      attempts == scan[2]
      newCurrentBet == IF action = "raise" THEN player.currentBet ELSE cb
      roundComplete ==
        \A i \in activePlayers :
          \/ i = playerIdx
          \/ np1[i].chips = 0
          \/ np1[i].hasActed /\ np1[i].currentBet = newCurrentBet
  IN IF playerIdx = -1 THEN prev
     ELSE IF Cardinality(activePlayers) > 1
             /\ ~roundComplete /\ attempts < 7 /\ np1[nextPos].chips > 0
     THEN [ np1 EXCEPT ![nextPos].isActive = TRUE ]
     ELSE np1

\* potAdd of processAction for the active player p
potAddOf(p, cb, action, amount) ==
  IF action = "call" THEN callAmtOf(cb, p)
  ELSE IF action = "raise"
  THEN Max(0, actualRaiseToOf(amount, p) - p.currentBet)
  ELSE 0

\* a table bet that follows the amount asked for instead of the amount put in
actualBetToAsked(p, potAdd, action, amount) ==
  IF action = "call" THEN p.currentBet + potAdd
  ELSE IF action = "raise" THEN amount
  ELSE 0
\* actualBetTo of processAction
actualBetToOf(p, potAdd, action, amount) ==
  IF action = "call" THEN p.currentBet + potAdd
  ELSE IF action = "raise" THEN actualRaiseToOf(amount, p)
  ELSE 0

\* The gameState update of processAction
processGameState(g, p, action, amount, bigBlind) ==
  LET potAdd == potAddOf(p, g.currentBet, action, amount)
      actualBetTo == actualBetToOf(p, potAdd, action, amount)
  IN IF potAdd > 0
     THEN [ g EXCEPT !.pot = g.pot + potAdd,
                     !.currentBet = IF action = "raise" THEN actualBetTo
                                    ELSE g.currentBet,
                     !.minRaise = IF action = "raise" THEN actualBetTo + bigBlind
                                  ELSE g.minRaise ]
     ELSE g

\* The updater of updatePlayerStats for prev[playerId] || createEmptyStats()
updatePlayerStats(stats, action, street) ==
  LET vpip == street = "preflop" /\ action \in { "call", "raise" }
      s1 == [ stats EXCEPT
                !.handsPlayed = IF vpip THEN @ + 1 ELSE @,
                !.folds = IF action = "fold" THEN @ + 1 ELSE @,
                !.calls = IF action = "call" THEN @ + 1 ELSE @,
                !.raises = IF action = "raise" THEN @ + 1 ELSE @,
                !.preflopRaises = IF action = "raise" /\ street = "preflop"
                                  THEN @ + 1 ELSE @ ]
      totalActions == s1.bets + s1.raises + s1.calls
  IN [ s1 EXCEPT
         !.aggNum = IF totalActions > 0 THEN s1.bets + s1.raises ELSE 1,
         !.aggDen = IF totalActions > 0 THEN Max(1, s1.calls) ELSE 1 ]

\* processAction returns before any update: no active seat, or the active
\* seat has no chips, the action bets and a bet is owed.
processReturnsEarly(pl, g, action) ==
  \/ ActiveIdx(pl) = -1
  \/ /\ pl[ActiveIdx(pl)].chips <= 0
     /\ action \notin { "fold", "check" }
     /\ ~(g.currentBet <= pl[ActiveIdx(pl)].currentBet)

\* processAction(action, amount) as one batched state transition
processAction(action, amount) ==
  /\ ~processReturnsEarly(players, gameState, action)
  /\ (ActiveIdx(players) = 0 /\ action \in { "call", "raise" }) =>
       playerStats.calls + playerStats.raises < MaxCounted
  /\ LET a == ActiveIdx(players)
     IN /\ players' = processPlayers(players, gameState.currentBet, action, amount)
        /\ gameState' = processGameState(gameState, players[a], action, amount,
                                         currentBlinds(blindLevel).bb)
        /\ lastOp' = Op(action, a, amount)
        \* if (currentActive.position === 0) updatePlayerStats(...)
        /\ playerStats' = IF a = 0
                          THEN updatePlayerStats(playerStats, action,
                                                 gameState.street)
                          ELSE playerStats
  /\ renderPending' = TRUE
  /\ aiStale' = TRUE
  /\ UNCHANGED << dealerIndex, handNumber, blindLevel, gameStarted, replayMode,
                  fullGameMode, handWinner, gameWinner, advanceTimers, startChips,
                  newGames, evaluated >>

\* ------------------------------------------------------------ human intents
\* The raise-to amounts the action bar can hand to onRaise: the raiseAmount
\* cell starts at minRaise and the presets set it to
\* Math.min(Math.max(preset, minRaise), maxRaise), maxRaise = the user's chips.
UIRaiseAmounts ==
  LET minRaise == gameState.minRaise
      maxRaise == players[0].chips
      bigBlind == currentBlinds(blindLevel).bb
      presets == { bigBlind * 3, maxRaise }
  IN { minRaise } \cup { Min(Max(a, minRaise), maxRaise) : a \in presets }

\* if (!userPlayer || userPlayer.chips <= 0) return
userCanAct == players[0].chips > 0

\* handleFold / handleCheck / handleCall / handleRaise: the intent is handed
\* to processAction, which applies it to whichever seat is active.
handleFold ==
  /\ ~renderPending /\ userCanAct
  /\ processAction("fold", 0)
  /\ UNCHANGED aiTimerSeat

handleCheck ==
  /\ ~renderPending /\ userCanAct
  /\ processAction("check", 0)
  /\ UNCHANGED aiTimerSeat

handleCall ==
  /\ ~renderPending /\ userCanAct
  /\ processAction("call", 0)
  /\ UNCHANGED aiTimerSeat

handleRaise ==
  /\ ~renderPending
  /\ userCanAct
  /\ \E amount \in UIRaiseAmounts : processAction("raise", amount)
  /\ UNCHANGED aiTimerSeat

\* raise-to amounts a caller of handleRaise can pass besides those of the
\* action bar: above any stack
AnyRaiseAmounts == { 5000 }

\* handleRaise(amount) called with any amount
handleRaiseAny ==
  /\ ~renderPending
  /\ userCanAct
  /\ \E amount \in UIRaiseAmounts \cup AnyRaiseAmounts :
       processAction("raise", amount)
  /\ UNCHANGED aiTimerSeat

\* The action bar: rendered when gameStarted, its buttons disabled unless
\* it is the user's turn outside replay mode; it shows Check when the user
\* owes nothing and Call otherwise.
isUserTurn == ActiveIdx(players) = 0

disabled == ~isUserTurn \/ replayMode \/ players[0].chips <= 0

canCheck == gameState.currentBet - players[0].currentBet = 0

clickFold == gameStarted /\ ~disabled /\ handleFold

clickCheck == gameStarted /\ ~disabled /\ canCheck /\ handleCheck

clickCall == gameStarted /\ ~disabled /\ ~canCheck /\ handleCall

clickRaise == gameStarted /\ ~disabled /\ handleRaise

\* ------------------------------------------------------------------ AI timer
\* Math.random() draws of the policy, in tenths: pot fractions of the bet
\* sizes (value, semi-bluff, bluff) and multiples of the table bet (raises).
PotTenths == { 6 }
BetTenths == { 30 }

\* while ((folded || chips === 0) && attempts < limit) { hasActed = true; ... }
\* << players, nextPos, attempts >>
RECURSIVE MarkScan(_, _, _, _)
MarkScan(pl, pos, n, limit) ==
  IF (pl[pos].isFolded \/ pl[pos].chips = 0) /\ n < limit
  THEN MarkScan([ pl EXCEPT ![pos].hasActed = TRUE ],
                (pos + 1) % NumSeats, n + 1, limit)
  ELSE << pl, pos, n >>

\* The updater of the AI effect for an all-in seat that owes a bet
aiSkipPlayers(prev) ==
  LET idx == ActiveIdx(prev)
      np1 == [ prev EXCEPT ![idx].hasActed = TRUE, ![idx].isActive = FALSE ]
      scan == MarkScan(np1, (idx + 1) % NumSeats, 0, 8)
      np2 == scan[1]
      nextPos == scan[2]
      attempts == scan[3]
  IN IF idx = -1 THEN prev
     ELSE IF attempts < 8 /\ ~np2[nextPos].hasActed
     THEN [ np2 EXCEPT ![nextPos].isActive = TRUE ]
     ELSE np2

\* The raise-to amounts the policy can submit for seat a: the strength
\* thresholds depend on the cards and on Math.random(), every sizing
\* branch that canRaise allows is taken for some draw.
aiRaiseAmounts(a) ==
  LET p == players[a]
      pot == gameState.pot
      cb == gameState.currentBet
      callAmount == cb - p.currentBet
      maxBet == p.chips + p.currentBet
      minRaise == gameState.minRaise
  IN IF callAmount = 0
     THEN \* value bet: Math.max(minRaise, Math.floor(Math.min(pot * f, maxBet)))
          { Max(minRaise, Min((pot * f) \div 10, maxBet)) : f \in PotTenths }
          \* semi-bluff, bluff: Math.min(Math.max(minRaise, floor(pot * f)), maxBet)
          \cup { Min(Max(minRaise, (pot * f) \div 10), maxBet) : f \in PotTenths }
     ELSE \* value raise, mixed raise: Math.min(Math.floor(cb * k), maxBet)
          { Min((cb * k) \div 10, maxBet) : k \in BetTenths }
          \* draw raise Math.min(cb * 2.5, maxBet), taken with 8 outs or more
          \* when integral
          \cup (IF /\ calculateDrawEquity(p.cards, gameState.communityCards).totalOuts >= 8
                    /\ (cb * 25) % 10 = 0
                THEN { Min((cb * 25) \div 10, maxBet) } ELSE {})

\* Math.random() draws of the sizes for a hand of final strength 85 or more:
\* pot * (1.2 + random * 0.8) and currentBet * (2.5 + random * 1.5), in tenths
NutsPotTenths == { 12, 20 }
NutsBetTenths == { 25, 32, 40 }

\* the raise-to amounts of the policy for a hand whose final strength is 85
\* or more: the value bet with getPolarizedBetSize's overbet and the value
\* raise
aiPremiumAmounts(a) ==
  LET p == players[a]
      pot == gameState.pot
      cb == gameState.currentBet
      callAmount == cb - p.currentBet
      maxBet == p.chips + p.currentBet
      minRaise == gameState.minRaise
  IN IF callAmount = 0
     THEN { Max(minRaise, Min((pot * f) \div 10, maxBet)) : f \in NutsPotTenths }
     ELSE { Min((cb * k) \div 10, maxBet) : k \in NutsBetTenths }

\* The thinking timer (600..1100 ms) of the AI effect fires.  It is armed
\* after every street-advance timer (400 ms) that is pending at that time,
\* so it fires after them.  sizes: the raise-to amounts the draws allow.
aiAct(sizes, folds) ==
  /\ ~renderPending
  /\ advanceTimers = 0
  /\ aiTimerSeat # -1
  /\ aiTimerSeat' = -1
  /\ ActiveIdx(players) # -1
  /\ LET a == ActiveIdx(players)
         p == players[a]
         callAmount == gameState.currentBet - p.currentBet
         canRaise == p.chips > callAmount
     IN IF p.chips <= 0
        THEN IF gameState.currentBet <= p.currentBet
             THEN processAction("check", 0)
             ELSE /\ players' = aiSkipPlayers(players)
                  /\ lastOp' = Op("skip", a, 0)
                  /\ renderPending' = TRUE
                  /\ aiStale' = TRUE
                  /\ UNCHANGED << playerStats, gameState, dealerIndex, handNumber, blindLevel,
                                  gameStarted, replayMode, fullGameMode,
                                  handWinner, gameWinner, advanceTimers,
                                  startChips, newGames, evaluated >>
        ELSE IF callAmount = 0
        THEN \/ processAction("check", 0)
             \/ /\ canRaise
                /\ \E amount \in sizes : processAction("raise", amount)
        ELSE \/ processAction("call", 0)
             \/ folds /\ processAction("fold", 0)
             \/ /\ canRaise
                /\ \E amount \in sizes : processAction("raise", amount)

aiTimer == gameStarted /\ aiAct(aiRaiseAmounts(ActiveIdx(players)), TRUE)

\* the same timer when every draw of the policy misses its raise branches
aiTimerPassive == gameStarted /\ aiAct({}, TRUE)

\* the same timer for hands strong enough never to fold and whose draws
\* miss the raise branches
aiTimerCalls == gameStarted /\ aiAct({}, FALSE)

\* the same timer for seats that hold a premium pair: they never fold
aiTimerPremium == gameStarted /\ aiAct(aiPremiumAmounts(ActiveIdx(players)), FALSE)

\* ------------------------------------------------------------ advanceStreet
\* The gameState updater of advanceStreet
advanceGameState(prev, bigBlind) ==
  LET n == IF prev.street = "preflop" THEN 3
           ELSE IF prev.street \in { "flop", "turn" } THEN 1 ELSE 0
      dealt == dealCards(prev.deck, n)
      newStreet == IF prev.street = "preflop" THEN "flop"
                   ELSE IF prev.street = "flop" THEN "turn"
                   ELSE IF prev.street = "turn" THEN "river"
                   ELSE IF prev.street = "river" THEN "showdown"
                   ELSE prev.street
  IN [ prev EXCEPT !.communityCards = prev.communityCards \o dealt[1],
                   !.deck = dealt[2],
                   !.street = newStreet,
                   !.currentBet = 0,
                   !.minRaise = bigBlind ]

\* betting is skipped only when no seat at all can bet
noBettingIfNone(prev) ==
  Cardinality({ i \in Seats : ~prev[i].isFolded /\ prev[i].chips > 0 }) <= 0

\* activePlayers.length <= 1, activePlayers the non-folded seats with chips
noBettingNeeded(prev) ==
  Cardinality({ i \in Seats : ~prev[i].isFolded /\ prev[i].chips > 0 }) <= 1

\* a street reset that hands the turn to every seat that can still act
advanceAllActive(prev) ==
  [ i \in Seats |->
      [ prev[i] EXCEPT
          !.hasActed = prev[i].isFolded \/ prev[i].chips = 0,
          !.currentBet = 0,
          !.isActive = ~prev[i].isFolded /\ prev[i].chips > 0 ] ]
\* only folded seats count as having acted
actedIfFolded(p) == p.isFolded

\* hasActed: p.isFolded || p.chips === 0
actedOnNewStreet(p) == p.isFolded \/ p.chips = 0

\* The players updater of advanceStreet
advancePlayers(prev) ==
  LET dealerIdx == DealerIdx(prev)
      firstToAct == SkipScan(prev, (dealerIdx + 1) % NumSeats, 0, 7)[1]
  IN IF noBettingNeeded(prev)
     THEN [ i \in Seats |->
              [ prev[i] EXCEPT !.hasActed = TRUE, !.currentBet = 0,
                               !.isActive = FALSE ] ]
     ELSE [ i \in Seats |->
              [ prev[i] EXCEPT
                  !.hasActed = actedOnNewStreet(prev[i]),
                  !.currentBet = 0,
                  !.isActive = (i = firstToAct /\ ~prev[i].isFolded
                                /\ prev[i].chips > 0) ] ]

\* A pending setTimeout(() => advanceStreet(), 400) fires
advanceStreet ==
  /\ ~renderPending
  /\ advanceTimers > 0
  /\ advanceTimers' = advanceTimers - 1
  /\ gameState' = advanceGameState(gameState, currentBlinds(blindLevel).bb)
  /\ players' = advancePlayers(players)
  /\ lastOp' = Op("advance", -1, 0)
  /\ renderPending' = TRUE
  /\ aiStale' = TRUE
  /\ UNCHANGED << aiTimerSeat, playerStats, evaluated >>
  /\ UNCHANGED << dealerIndex, handNumber, blindLevel, gameStarted, replayMode,
                  fullGameMode, handWinner, gameWinner, startChips, newGames >>

\* ------------------------------------------------------------------ effects
\* The updater of the auto-skip effect (the user is all-in but marked active)
userSkipPlayers(prev) ==
  LET np1 == [ prev EXCEPT ![0].hasActed = TRUE, ![0].isActive = FALSE ]
      scan == MarkScan(np1, 1, 0, 7)
      np2 == scan[1]
      nextPos == scan[2]
      attempts == scan[3]
  IN IF ~prev[0].isActive THEN prev
     ELSE IF attempts < 7 /\ np2[nextPos].chips > 0 /\ ~np2[nextPos].isFolded
     THEN [ np2 EXCEPT ![nextPos].isActive = TRUE ]
     ELSE np2

\* The auto-skip effect sets state on this render
userSkipFires ==
  /\ gameStarted
  /\ ActiveIdx(players) = 0
  /\ players[0].chips <= 0

\* Street-advancement effect: the non-folded seats of the render
nonFolded(pl) == { i \in Seats : ~pl[i].isFolded }

\* activePlayers[0]: the first non-folded seat
firstNonFolded(pl) ==
  CHOOSE i \in nonFolded(pl) : \A j \in nonFolded(pl) : i <= j

\* the first non-folded seat with the lowest score
showdownLowest(pl, g) ==
  LET str(i) == evaluateBoardStrength2(pl[i].cards, g.communityCards)
  IN CHOOSE w \in nonFolded(pl) :
       /\ \A j \in nonFolded(pl) : str(w) <= str(j)
       /\ \A j \in nonFolded(pl) : str(j) = str(w) => w <= j
\* playerStrengths.reduce((best, curr) => curr.strength > best.strength ? curr : best)
showdownWinner(pl, g) ==
  LET str(i) == evaluateBoardStrength2(pl[i].cards, g.communityCards)
  IN CHOOSE w \in nonFolded(pl) :
       /\ \A j \in nonFolded(pl) : str(j) <= str(w)
       /\ \A j \in nonFolded(pl) : str(j) = str(w) => w <= j

\* roundComplete of the street-advancement effect
roundComplete(pl, g) ==
  \A i \in nonFolded(pl) :
    pl[i].hasActed /\ (pl[i].currentBet = g.currentBet \/ pl[i].chips = 0)

noOneActive(pl) == \A i \in Seats : ~pl[i].isActive

\* the failsafe scan: first seat after the dealer (7 attempts) that can act
failsafeSeat(pl) ==
  LET dealerIdx == DealerIdx(pl)
      hits == { k \in 0 .. 6 :
                  LET q == pl[(dealerIdx + 1 + k) % NumSeats]
                  IN ~q.isFolded /\ q.chips > 0 /\ ~q.hasActed }
  IN IF hits = {} THEN -1
     ELSE (dealerIdx + 1 + (CHOOSE k \in hits : \A j \in hits : k <= j)) % NumSeats

\* which branch of the street-advancement effect this render takes
streetEffect ==
  IF ~gameStarted \/ replayMode THEN "none"
  ELSE IF Cardinality(nonFolded(players)) <= 1
  THEN IF Cardinality(nonFolded(players)) = 1 /\ gameState.pot > 0
       THEN "foldout" ELSE "none"
  ELSE IF gameState.street = "showdown" /\ gameState.pot > 0 THEN "showdown"
  ELSE IF roundComplete(players, gameState) /\ noOneActive(players)
  THEN "schedule"
  ELSE IF /\ noOneActive(players) /\ ~roundComplete(players, gameState)
          /\ gameState.street # "showdown"
          /\ \E i \in nonFolded(players) :
                players[i].chips > 0 /\ ~players[i].hasActed
          /\ failsafeSeat(players) # -1
  THEN "failsafe"
  ELSE "none"

\* an award that pays the pot to every seat still in the hand
awardEveryLive(prev, winner, potWon) ==
  [ i \in Seats |->
      IF prev[i].isFolded THEN prev[i]
      ELSE [ prev[i] EXCEPT !.chips = prev[i].chips + potWon ] ]

\* setPlayers(prev => prev.map(p => p.id === winner.id
\*   ? { ...p, chips: p.chips + potWon } : p))
awardPlayers(prev, winner, potWon) ==
  [ prev EXCEPT ![winner].chips = prev[winner].chips + potWon ]

\* a cleanup that leaves the armed timer running
aiKeepTimer(timer) == timer
\* return () => { clearTimeout(timer); ... }
aiCleanup(timer) == -1

\* The AI effect of a render: it runs when one of its dependencies changed;
\* the cleanup of the previous run comes first, then a timer is armed for
\* the active seat unless nobody or the user is active.
aiEffect(timer, stale, pl) ==
  IF ~stale THEN timer
  ELSE IF gameStarted /\ ActiveIdx(pl) \notin { -1, 0 } THEN ActiveIdx(pl)
  ELSE aiCleanup(timer)

\* One flush of the effects of a render: auto-skip, then street advancement;
\* their updaters run in that order on the committed state.
runEffects ==
  /\ renderPending
  /\ LET e == streetEffect
         p1 == IF userSkipFires THEN userSkipPlayers(players) ELSE players
         winner == IF e = "foldout" THEN firstNonFolded(players)
                   ELSE IF e = "showdown" THEN showdownWinner(players, gameState)
                   ELSE -1
         potWon == gameState.pot
     IN /\ players' =
             IF e \in { "foldout", "showdown" }
             THEN awardPlayers(p1, winner, potWon)
             ELSE IF e = "failsafe"
             THEN [ i \in Seats |->
                      [ p1[i] EXCEPT !.isActive = (i = failsafeSeat(players)) ] ]
             ELSE p1
        /\ gameState' = IF e \in { "foldout", "showdown" }
                        THEN [ gameState EXCEPT !.pot = 0 ] ELSE gameState
        /\ replayMode' = IF e \in { "foldout", "showdown" } THEN TRUE
                         ELSE replayMode
        /\ handWinner' = IF e \in { "foldout", "showdown" } THEN winner
                         ELSE handWinner
        /\ advanceTimers' = IF e = "schedule" THEN advanceTimers + 1
                            ELSE advanceTimers
        /\ renderPending' = (userSkipFires \/ e \in { "foldout", "showdown", "failsafe" })
        /\ aiTimerSeat' = aiEffect(aiTimerSeat, aiStale, players)
        /\ aiStale' = (userSkipFires \/ e \in { "foldout", "showdown", "failsafe" })
        /\ lastOp' =
             IF e \in { "foldout", "showdown" }
             THEN Op(e, winner, potWon)
             ELSE IF e = "failsafe"
             THEN Op("failsafe", failsafeSeat(players), 0)
             ELSE IF userSkipFires
             THEN Op("userskip", 0, 0)
             ELSE lastOp
  /\ UNCHANGED << dealerIndex, handNumber, blindLevel, gameStarted,
                  fullGameMode, gameWinner, startChips, newGames,
                  playerStats, evaluated >>

\* ----------------------------------------------------------- startNextHand
\* The auto-continue timer (2500 ms) fires: startNextHand()
nextHandTimer ==
  /\ ~renderPending
  /\ advanceTimers = 0
  /\ fullGameMode /\ handWinner # -1 /\ gameWinner = -1
  /\ LET chipCounts == [ i \in Seats |-> players[i].chips + players[i].currentBet ]
         withChips == { i \in Seats : chipCounts[i] > 0 }
     IN IF Cardinality(withChips) <= 1
        THEN /\ gameWinner' = IF withChips = {} THEN NumSeats
                              ELSE CHOOSE i \in withChips : TRUE
             /\ lastOp' = Op("gamewinner", -1, 0)
             /\ renderPending' = TRUE
             /\ UNCHANGED aiStale
             /\ UNCHANGED << players, gameState, dealerIndex, handNumber,
                             blindLevel, replayMode, handWinner, startChips >>
        ELSE \E deck \in Decks :
             LET rot == { k \in 1 .. NumSeats :
                            chipCounts[(dealerIndex + k) % NumSeats] > 0 }
                 newDealerIdx ==
                   (dealerIndex + (CHOOSE k \in rot : \A j \in rot : k <= j))
                     % NumSeats
                 nextHandNumber == handNumber + 1
                 g == initializeGame(chipCounts, newDealerIdx, deck,
                                     currentBlinds(blindLevel))
             IN /\ handNumber' = nextHandNumber
                /\ handWinner' = -1
                /\ blindLevel' = (nextHandNumber - 1) \div handsPerLevel
                /\ players' = g.players
                /\ gameState' = g.gameState
                /\ dealerIndex' = newDealerIdx
                /\ replayMode' = FALSE
                /\ startChips' = SumOver(chipCounts, Seats)
                /\ lastOp' = Op("start", -1, 0)
                /\ renderPending' = TRUE
                /\ aiStale' = TRUE
                /\ UNCHANGED gameWinner
  /\ UNCHANGED << gameStarted, fullGameMode, advanceTimers, newGames,
                  aiTimerSeat, playerStats, evaluated >>

\* the hands of a game are counted up to MaxHands
startNextHand == handNumber < MaxHands /\ nextHandTimer

\* the same timer in a game long enough for the blinds to go up
startNextHandLate == handNumber < MaxBlindHands /\ nextHandTimer

\* ------------------------------------------------------------ startNewGame
\* existingChips || [5000, 5000, 5000, 5000, 5000, 5000, 5000, 5000]
DefaultChips == [ i \in Seats |-> 5000 ]

\* Math.floor(Math.random() * 8): the buttons the model draws
NewGameDealers == { 0, 5 }

\* The New Hand / Restart Game button: startNewGame(isFullGame).  Pending
\* street-advance timers are not cleared.
startNewGame ==
  /\ ~renderPending
  /\ newGames < MaxGames
  /\ \E d \in NewGameDealers, deck \in Decks :
       LET g == initializeGame(DefaultChips, d, deck, currentBlinds(blindLevel))
       IN /\ players' = g.players
          /\ gameState' = g.gameState
          /\ dealerIndex' = g.dealerIndex
  /\ gameStarted' = TRUE
  /\ replayMode' = FALSE
  /\ fullGameMode' = fullGameMode
  /\ handNumber' = 1
  /\ handWinner' = -1
  /\ gameWinner' = -1
  /\ blindLevel' = 0
  /\ startChips' = SumOver(DefaultChips, Seats)
  /\ newGames' = newGames + 1
  /\ lastOp' = Op("start", -1, 0)
  /\ renderPending' = TRUE
  /\ aiStale' = TRUE
  /\ UNCHANGED << advanceTimers, aiTimerSeat, playerStats, evaluated >>

\* -------------------------------------------------------------------- Next
\* One hand, every intent of the action bar and every branch of the AI.
Next ==
  \/ clickFold
  \/ clickCheck
  \/ clickCall
  \/ clickRaise
  \/ aiTimer
  \/ advanceStreet
  \/ runEffects

Spec == Init /\ [][Next]_vars

\* React runs the effects of every render, and an armed timer fires: the
\* effect flush, the street-advance timer and the AI thinking timer are
\* weakly fair.  Nothing makes the user click.
SpecFair ==
  /\ Spec
  /\ WF_vars(runEffects)
  /\ WF_vars(advanceStreet)
  /\ WF_vars(aiTimer)

\* The handlers reached without the action bar (the engine's caller hands
\* them any intent at any time), one hand.
NextCore ==
  \/ handleFold
  \/ handleCheck
  \/ handleCall
  \/ handleRaiseAny
  \/ aiTimerPassive
  \/ advanceStreet
  \/ runEffects

SpecCore == Init /\ [][NextCore]_vars

\* A game over several hands, with New Hand / Restart; no seat raises.
NextGame ==
  \/ clickFold
  \/ clickCheck
  \/ clickCall
  \/ aiTimerCalls
  \/ advanceStreet
  \/ runEffects
  \/ startNextHand
  \/ startNewGame

SpecGame == InitGame /\ [][NextGame]_vars

\* One hand under the full opponent logic, then the deal of the next hand.
playHand == handNumber = 1 /\ Next

NextDeal ==
  \/ playHand
  \/ startNextHand

SpecDeal == Init /\ [][NextDeal]_vars

\* --------------------------------------------------- the hand evaluation
\* The evaluation functions applied to every pair of hole cards, on no board
\* and on the flop, turn and river of a few boards.
tableVars == << players, gameState, dealerIndex, handNumber, blindLevel,
                gameStarted, replayMode, fullGameMode, handWinner, gameWinner,
                advanceTimers, renderPending, startChips, newGames,
                playerStats, aiTimerSeat, aiStale >>

\* createDeck: every rank in every suit
AllCards == { Cd(r, s) : r \in 2 .. 14, s \in 0 .. 3 }

\* the community cards dealt: three of one suit and a run; a dry board
Boards ==
  { << Cd(5, 0), Cd(6, 0), Cd(7, 1), Cd(12, 0), Cd(2, 2) >>,
    << Cd(14, 1), Cd(9, 2), Cd(3, 3), Cd(13, 0), Cd(9, 1) >> }

SuitPerms ==
  { f \in [ 0 .. 3 -> 0 .. 3 ] : \A a, b \in 0 .. 3 : f[a] = f[b] => a = b }

relabel(cards, f) ==
  [ i \in 1 .. Len(cards) |-> Cd(cards[i].rank, f[cards[i].suit]) ]

disjointCards(cs, ds) ==
  \A i \in 1 .. Len(cs), j \in 1 .. Len(ds) : cs[i] # ds[j]

InitEval ==
  /\ InitHand({ [ chips |-> ChipsOf(<< 1000, 1000, 0, 0, 0, 0, 0, 0 >>),
                  dealer |-> 0 ] },
              { CHOOSE deck \in Decks : TRUE })
  /\ \E c1, c2 \in AllCards :
       /\ c1 # c2
       /\ evaluated = Evaluate(<< c1, c2 >>, << >>)

\* the flop, the turn or the river of a board is dealt
evalDeal ==
  /\ \E b \in Boards :
       LET n == Len(evaluated.communityCards)
           dealt == SubSeq(b, 1, IF n = 0 THEN 3 ELSE n + 1)
       IN /\ n < 5
          /\ SubSeq(b, 1, n) = evaluated.communityCards
          /\ disjointCards(evaluated.holeCards, dealt)
          /\ evaluated' = Evaluate(evaluated.holeCards, dealt)
  /\ lastOp' = Op("deal", -1, 0)
  /\ UNCHANGED tableVars

\* the same hole cards in other suits
evalRelabel ==
  /\ \E f \in SuitPerms :
       LET hole == relabel(evaluated.holeCards, f)
       IN /\ hole # evaluated.holeCards
          /\ disjointCards(hole, evaluated.communityCards)
          /\ evaluated' = Evaluate(hole, evaluated.communityCards)
  /\ lastOp' = Op("relabel", -1, 0)
  /\ UNCHANGED tableVars

\* the same hole cards in the other order
evalSwap ==
  /\ evaluated' = Evaluate(<< evaluated.holeCards[2], evaluated.holeCards[1] >>,
                           evaluated.communityCards)
  /\ lastOp' = Op("swap", -1, 0)
  /\ UNCHANGED tableVars

NextEval ==
  \/ evalDeal
  \/ evalRelabel
  \/ evalSwap

SpecEval == InitEval /\ [][NextEval]_vars

\* One hand with the raises of the action bar, then new games; the opponents
\* check or call.
NextRestart ==
  \/ clickFold
  \/ clickCheck
  \/ clickCall
  \/ clickRaise
  \/ aiTimerCalls
  \/ advanceStreet
  \/ runEffects
  \/ startNewGame

SpecRestart == InitGame /\ [][NextRestart]_vars

\* One hand against opponents that hold premium pairs.
InitPremium == InitHand(InitTables, PremiumDecks) /\ evaluated = Evaluate(<< >>, << >>)

NextPremium ==
  \/ clickFold
  \/ clickCheck
  \/ clickCall
  \/ clickRaise
  \/ aiTimerPremium
  \/ advanceStreet
  \/ runEffects

SpecPremium == InitPremium /\ [][NextPremium]_vars

\* A full table after startNewGame; the user folds every hand and the
\* opponents check or call to the showdown, hand after hand.
InitBlinds ==
  InitOf({ [ chips |-> DefaultChips, dealer |-> d ] : d \in NewGameDealers })

NextBlinds ==
  \/ clickFold
  \/ aiTimerCalls
  \/ advanceStreet
  \/ runEffects
  \/ startNextHandLate

SpecBlinds == InitBlinds /\ [][NextBlinds]_vars

TypeOK ==
  /\ gameState.street \in Streets
  /\ advanceTimers \in Nat
  /\ renderPending \in BOOLEAN

\* ------------------------------------------------------------------ steps
\* a step in which processAction applied action
Applied(action) ==
  /\ ~renderPending /\ renderPending'
  /\ lastOp'.op = action

\* a step in which the pending street-advance timer ran advanceStreet
Advanced == advanceTimers' < advanceTimers

\* ------------------------------------------------------------- properties
\* C1: within one hand the stacks of all seats plus the pot always equal the
\* total of the stacks the hand started with (after the blinds, after every
\* applied action, auto-skip, street advance and award).
C1_ChipConservation == TotalChips(players) + gameState.pot = startChips

\* C2: after every raise the raiser's commitment is at most the stack plus
\* the commitment it had before the raise.
C2_RaiseWithinMeans ==
  [][Applied("raise") =>
       players'[lastOp'.seat].currentBet
         <= players[lastOp'.seat].chips + players[lastOp'.seat].currentBet]_vars

\* a raise that asked for more than the seat had has been applied
C2_Witness ==
  /\ lastOp.op = "raise"
  /\ lastOp.amount > players[lastOp.seat].currentBet
  /\ players[lastOp.seat].chips = 0

\* C3: advanceStreet never runs while a seat that is not folded and has a
\* nonzero stack has hasActed = false.
C3_AdvanceOnlyWhenAllActed ==
  [][Advanced =>
       \A i \in Seats :
         (~players[i].isFolded /\ players[i].chips > 0) => players[i].hasActed]_vars

\* C4: no settled state has an unresolved hand with no active seat and no
\* pending street advance.
C4_NoStuckHand ==
  ~( /\ ~renderPending
     /\ gameStarted /\ ~replayMode
     /\ noOneActive(players)
     /\ advanceTimers = 0 )

\* C5: once the hand is resolved and while it stays in replay, no seat's
\* stack, commitment, folded flag or hasActed flag changes and the pot stays 0.
C5_ReplayReadOnly ==
  [][(replayMode /\ replayMode') =>
       /\ gameState'.pot = 0
       /\ \A i \in Seats :
            /\ players'[i].chips = players[i].chips
            /\ players'[i].currentBet = players[i].currentBet
            /\ players'[i].isFolded = players[i].isFolded
            /\ players'[i].hasActed = players[i].hasActed]_vars

\* C6: when folds have left exactly one non-folded seat, the resolution adds
\* the entire pot to that seat's stack and empties the pot, from then on the
\* community cards of the hand do not change, and no render settles with one
\* non-folded seat and chips left in the pot.
C6_FoldOutAward ==
  [][/\ (handWinner = -1 /\ handWinner' # -1
           /\ Cardinality(nonFolded(players)) = 1) =>
          /\ \A w \in nonFolded(players) :
               /\ handWinner' = w
               /\ players'[w].chips = players[w].chips + gameState.pot
          /\ gameState.pot > 0
          /\ gameState'.pot = 0
          /\ gameState'.communityCards = gameState.communityCards
     /\ (handWinner # -1 /\ handWinner' = handWinner
           /\ Cardinality(nonFolded(players)) = 1) =>
          gameState'.communityCards = gameState.communityCards
     /\ (~renderPending' /\ Cardinality(nonFolded(players')) = 1) =>
          gameState'.pot = 0]_vars

\* the boardStrength score of seat i on the board of g
strengthOf(pl, g, i) == evaluateBoardStrength2(pl[i].cards, g.communityCards)

\* C7: the showdown resolution gives the whole pot to exactly one non-folded
\* seat whose boardStrength score is the maximum among the non-folded seats;
\* the other seats' stacks are unchanged, also when scores are equal; no
\* render settles on the showdown street without a winner.
C7_ShowdownAward ==
  [][/\ (handWinner = -1 /\ handWinner' # -1
           /\ Cardinality(nonFolded(players)) > 1) =>
          /\ gameState.street = "showdown"
          /\ gameState.pot > 0
          /\ gameState'.pot = 0
          /\ \E w \in nonFolded(players) :
               /\ \A j \in nonFolded(players) :
                    strengthOf(players, gameState, j)
                      <= strengthOf(players, gameState, w)
               /\ players'[w].chips = players[w].chips + gameState.pot
               /\ \A j \in Seats \ { w } :
                    players'[j].chips = players[j].chips
     /\ (~renderPending' /\ gameState'.street = "showdown") =>
          handWinner' # -1]_vars

\* a showdown won by a seat that is not the first non-folded one, with a
\* strictly lower score at the table
C7_Witness ==
  /\ lastOp.op = "showdown"
  /\ lastOp.amount > 0
  /\ \E j \in nonFolded(players) :
       /\ j < lastOp.seat
       /\ strengthOf(players, gameState, j)
            < strengthOf(players, gameState, lastOp.seat)

\* a showdown between seats with equal scores: one of them holds the pot
C7_WitnessTie ==
  /\ lastOp.op = "showdown"
  /\ lastOp.amount > 0
  /\ \E j \in nonFolded(players) \ { lastOp.seat } :
       strengthOf(players, gameState, j)
         = strengthOf(players, gameState, lastOp.seat)

\* the hand just dealt heads-up with stacks [1000, 1000], dealer at seat 0
HeadsUpDealt ==
  /\ lastOp.op = "start" /\ renderPending
  /\ newGames = 0 /\ handNumber = 1
  /\ dealerIndex = 0
  /\ \A i \in Seats :
       players[i].chips + players[i].currentBet
         = IF i \in { 0, 1 } THEN 1000 ELSE 0

\* C8: heads-up, stacks [1000, 1000], dealer seat 0, blinds 25/50: the pot is
\* 75, one seat (small blind) has stack 975, another (big blind) has stack
\* 950 and the table current bet is 50.
C8_HeadsUpBlinds ==
  HeadsUpDealt =>
    /\ gameState.pot = 75
    /\ gameState.currentBet = 50
    /\ \E sb \in Seats, bb \in Seats :
         /\ sb # bb
         /\ players[sb].chips = 975
         /\ players[bb].chips = 950

\* C9: a raise-to above stack + commitment leaves the seat with commitment
\* stack + commitment and stack 0, and the table current bet is that amount
\* (stack 150, commitment 0, raise to 200: commitment 150, table bet 150).
C9_RaiseClamped ==
  [][(Applied("raise")
        /\ lastOp'.amount > players[lastOp'.seat].chips
                              + players[lastOp'.seat].currentBet) =>
       LET p == players[lastOp'.seat]
       IN /\ players'[lastOp'.seat].currentBet = p.chips + p.currentBet
          /\ players'[lastOp'.seat].chips = 0
          /\ gameState'.currentBet = p.chips + p.currentBet]_vars

\* the seat with stack 150 and commitment 0 has raised to 200
C9_Witness ==
  /\ lastOp = Op("raise", 0, 200)
  /\ renderPending
  /\ players[0].currentBet = 150
  /\ players[0].chips = 0
  /\ gameState.currentBet = 150
  /\ startChips = 450

\* C10: a check by the active seat while the table current bet exceeds its
\* commitment changes no stack, commitment, hasActed flag, active seat, pot
\* or table current bet.
C10_CheckOwedNoOp ==
  [][(Applied("check")
        /\ gameState.currentBet > players[lastOp'.seat].currentBet) =>
       /\ players' = players
       /\ gameState' = gameState]_vars

\* a step of one of the four intents of the human seat 0
HumanIntent == handleFold \/ handleCheck \/ handleCall \/ handleRaiseAny

\* C11: a fold, check, call or raise intent of seat 0 issued while seat 0 is
\* not the active seat changes nothing; it is never applied to an AI seat.
C11_NonActiveIntentIgnored ==
  [][(HumanIntent /\ ActiveIdx(players) # 0) =>
       /\ players' = players
       /\ gameState' = gameState]_vars

\* a step in which the armed AI thinking timer fired and applied its decision
AiFires == ~renderPending /\ aiTimerSeat # -1 /\ aiTimerSeat' = -1

C13_TurnExclusive ==
  /\ Cardinality({ i \in Seats : players[i].isActive }) <= 1
  /\ \A i \in Seats : players[i].isActive => ~players[i].isFolded

\* the turn was handed on after a street advance with three seats in the hand
C13_Witness ==
  /\ gameState.street = "flop"
  /\ Cardinality(nonFolded(players)) = 3
  /\ lastOp.op = "check"
  /\ ActiveIdx(players) # -1
  /\ ActiveIdx(players) # lastOp.seat

\* C14: every seat's stack is greater than or equal to 0.
C14_StackNonNegative == \A i \in Seats : players[i].chips >= 0

\* a raise to 5000 has been applied to a seat that could not cover it, and a
\* seat that could not cover a call has called
C14_Witness ==
  /\ \E i \in Seats : players[i].chips = 0 /\ players[i].currentBet > 0
                        /\ lastOp = Op("call", i, 0)
  /\ \E j \in Seats : players[j].chips = 0 /\ ~players[j].isFolded
                        /\ players[j].currentBet = gameState.currentBet
                        /\ lastOp.seat # j

\* a step in which processAction ran for the human seat and updated its stats
StatsUpdated ==
  /\ ~renderPending /\ renderPending'
  /\ lastOp'.op \in { "fold", "check", "call", "raise" }
  /\ lastOp'.seat = 0

\* C15: after every statistics update the stored aggression factor equals
\* (bets + raises) / max(1, calls) of the stored counters.
C15_AggressionFormula ==
  [][StatsUpdated =>
       playerStats'.aggNum * Max(1, playerStats'.calls)
         = (playerStats'.bets + playerStats'.raises) * playerStats'.aggDen]_vars

\* the counters of a statistics record
StatCounters ==
  { "handsPlayed", "preflopRaises", "bets", "raises", "calls", "folds" }

\* C16: startNewGame puts the statistics back at their empty values, and no
\* other operation decreases a counter.
C16_StatsResetOnNewGame ==
  [][/\ (newGames' # newGames) => playerStats' = createEmptyStats
     /\ (newGames' = newGames) =>
          \A c \in StatCounters : playerStats'[c] >= playerStats[c]]_vars

\* seats holding a positive stack
stackHolders == { i \in Seats : players[i].chips > 0 }

\* C17: startNextHand declares a game winner, and deals nothing, exactly when
\* at most one seat holds a positive stack; it deals a hand only with two or
\* more such seats, and never once a game winner is declared.
C17_GameEndRule ==
  [][(newGames' = newGames) =>
       /\ (gameWinner' # gameWinner) =>
            (Cardinality(stackHolders) <= 1 /\ handNumber' = handNumber)
       /\ (handNumber' # handNumber) =>
            (Cardinality(stackHolders) >= 2 /\ gameWinner = -1)]_vars

\* C18: the draw equity of any hole cards is all zero, outs, equity and
\* implied odds, when five community cards are out and when none is.
C18_DrawZeroAtRiver ==
  Len(evaluated.communityCards) \in { 0, 5 } =>
    evaluated.drawEquity = [ flushOuts |-> 0, straightOuts |-> 0,
                             totalOuts |-> 0, equity |-> 0,
                             impliedOdds10 |-> 0 ]

\* the river is out and the seven cards hold four of one suit
C18_Witness ==
  /\ lastOp.op = "deal"
  /\ Len(evaluated.communityCards) = 5
  /\ maxSuitCount(evaluated.holeCards \o evaluated.communityCards) = 4

\* h2 is h1 under a relabeling of the suits, in either order of the cards
sameUpToSuits(h1, h2) ==
  /\ Len(h1) = 2
  /\ \E f \in SuitPerms :
       \/ relabel(h1, f) = h2
       \/ relabel(<< h1[2], h1[1] >>, f) = h2

\* C19: the preflop strength lies in [0, 100] (doubled: [0, 200]) and is the
\* same for hole cards that differ by a relabeling of the suits or by the
\* order of the two cards.
C19_StrengthSymmetric ==
  /\ [](evaluated.handStrength \in 0 .. 200)
  /\ [][sameUpToSuits(evaluated.holeCards, evaluated'.holeCards) =>
          evaluated'.handStrength = evaluated.handStrength]_vars

\* a suited ace-king has been moved to another suit
C19_Witness ==
  /\ lastOp.op = "relabel"
  /\ evaluated.holeCards = << Cd(14, 2), Cd(13, 2) >>

\* C20: when advanceStreet runs from a betting street, every non-folded seat
\* that still holds chips has committed exactly the table's current bet.
C20_StreetClosedMatched ==
  [][(Advanced /\ gameState.street # "showdown") =>
       \A i \in Seats :
         (~players[i].isFolded /\ players[i].chips > 0) =>
           players[i].currentBet = gameState.currentBet]_vars

\* C21: a raise to more than the table's current bet leaves every other
\* non-folded seat that holds chips with hasActed = false; a raise to no more
\* than the table's current bet changes no other seat's hasActed; and a
\* betting street is not advanced after a raise while a non-folded seat that
\* holds chips has not acted.
C21_RaiseReopensBetting ==
  [][/\ Applied("raise") =>
          LET seat == lastOp'.seat
              raised == players'[seat].currentBet > gameState.currentBet
          IN \A i \in Seats \ { seat } :
               IF raised
               THEN (~players'[i].isFolded /\ players'[i].chips > 0) =>
                      ~players'[i].hasActed
               ELSE players'[i].hasActed = players[i].hasActed
     /\ (Advanced /\ gameState.street # "showdown" /\ lastOp.op = "raise") =>
          \A i \in Seats :
            (~players[i].isFolded /\ players[i].chips > 0) =>
              players[i].hasActed]_vars

\* the hand is unresolved before showdown, no seat is active and the round
\* is not complete; the street effect reaches its failsafe only with two or
\* more seats not folded (it returns earlier otherwise)
noActorState ==
  /\ gameStarted /\ ~replayMode /\ handWinner = -1
  /\ gameState.street # "showdown"
  /\ Cardinality(nonFolded(players)) >= 2
  /\ noOneActive(players)
  /\ ~roundComplete(players, gameState)

\* C22: a state in which the hand is unresolved before showdown, two or more
\* seats are in the hand, no seat is active and the round is not complete is
\* eventually left.
C22_NoActorStateLeft == noActorState ~> ~noActorState

\* at least two seats are not folded and at most one of them holds chips
onlyOneCanBet(pl) ==
  /\ Cardinality(nonFolded(pl)) >= 2
  /\ Cardinality({ i \in nonFolded(pl) : pl[i].chips > 0 }) <= 1

\* a later street of an unresolved hand that was opened without betting
runOut ==
  /\ gameStarted /\ ~replayMode /\ handWinner = -1
  /\ gameState.street \in { "flop", "turn", "river" }
  /\ onlyOneCanBet(players)
  /\ noOneActive(players)
  /\ gameState.currentBet = 0
  /\ \A i \in Seats : players[i].currentBet = 0

\* C23: when a street closes with at least two non-folded seats of which at
\* most one holds chips, no seat is made active; on the later streets no seat
\* becomes active, no stack and no pot changes, and the next street advance
\* is always under way; at showdown the pot is awarded.
C23_RunOutToShowdown ==
  [][/\ (Advanced /\ gameState.street \in { "preflop", "flop", "turn" }
           /\ onlyOneCanBet(players)) => noOneActive(players')
     /\ (runOut /\ newGames' = newGames) =>
          /\ noOneActive(players')
          /\ \A i \in Seats : players'[i].chips = players[i].chips
          /\ gameState'.pot = gameState.pot
          /\ (gameState'.street # gameState.street) => Advanced
     /\ runOut' => (renderPending' \/ advanceTimers' > 0)
     /\ (/\ gameStarted /\ ~replayMode /\ handWinner = -1
         /\ gameState.street = "showdown"
         /\ onlyOneCanBet(players)) =>
          (handWinner' # -1 /\ gameState'.pot = 0 /\ replayMode')]_vars

\* the turn of a hand that is being run out
C23_Witness == runOut /\ gameState.street = "turn"

\* the showdown of a hand that was run out has been awarded
C23_WitnessAward ==
  /\ lastOp.op = "showdown" /\ handWinner # -1
  /\ \E i \in nonFolded(players) : i # handWinner /\ players[i].chips = 0

\* C24: a call moves min(gap, stack) chips, never a negative amount, from the
\* active seat's stack to the pot, gap being the table's current bet minus
\* the seat's commitment; the commitment grows by the same amount and the
\* table's current bet and minimum raise are unchanged.
C24_CallMovesGap ==
  [][Applied("call") =>
       LET seat == ActiveIdx(players)
           gap == gameState.currentBet - players[seat].currentBet
           moved == Min(gap, players[seat].chips)
       IN /\ moved >= 0
          /\ players'[seat].chips = players[seat].chips - moved
          /\ gameState'.pot = gameState.pot + moved
          /\ players'[seat].currentBet = players[seat].currentBet + moved
          /\ gameState'.currentBet = gameState.currentBet
          /\ gameState'.minRaise = gameState.minRaise]_vars

\* C25: after advanceStreet from preflop, flop or turn with at least two
\* non-folded seats holding chips, every commitment and the table's current
\* bet are 0, the minimum raise is one big blind, hasActed is true exactly
\* for the folded and the zero-stack seats, and the pot and every stack are
\* unchanged.
C25_StreetReset ==
  [][(/\ Advanced
      /\ gameState.street \in { "preflop", "flop", "turn" }
      /\ Cardinality({ i \in Seats :
                         ~players[i].isFolded /\ players[i].chips > 0 }) >= 2) =>
       /\ \A i \in Seats :
            /\ players'[i].currentBet = 0
            /\ players'[i].hasActed =
                 (players'[i].isFolded \/ players'[i].chips = 0)
            /\ players'[i].chips = players[i].chips
       /\ gameState'.currentBet = 0
       /\ gameState'.minRaise = currentBlinds(blindLevel).bb
       /\ gameState'.pot = gameState.pot]_vars

\* a street has been opened for betting with a folded seat, an all-in seat
\* and two seats that hold chips
C25_Witness ==
  /\ lastOp.op = "advance" /\ renderPending
  /\ gameState.street \in { "flop", "turn", "river" }
  /\ ActiveIdx(players) # -1
  /\ \E i \in nonFolded(players) : players[i].chips = 0
  /\ gameState.pot > 0

\* C26: the street fixes the number of community cards (0 preflop, 3 on the
\* flop, 4 on the turn, 5 on the river and at showdown), and within one hand
\* the street only moves one step forward in the order preflop, flop, turn,
\* river, showdown.
streetCards ==
  [ preflop |-> 0, flop |-> 3, turn |-> 4, river |-> 5, showdown |-> 5 ]

streetAfter ==
  [ preflop |-> "flop", flop |-> "turn", turn |-> "river",
    river |-> "showdown", showdown |-> "showdown" ]

C26_StreetOrder ==
  /\ [](Len(gameState.communityCards) = streetCards[gameState.street])
  /\ [][(handNumber' = handNumber /\ newGames' = newGames
          /\ gameState'.street # gameState.street) =>
          gameState'.street = streetAfter[gameState.street]]_vars

\* the river card is out
C26_Witness ==
  /\ gameState.street = "river"
  /\ Len(gameState.communityCards) = 5
  /\ lastOp.op = "advance"

\* the first seat of S clockwise from seat start, start included; -1 if none
clockwiseFirst(S, start) ==
  IF S = {} THEN -1
  ELSE LET k == CHOOSE k \in 0 .. (NumSeats - 1) :
                  /\ (start + k) % NumSeats \in S
                  /\ \A j \in 0 .. (k - 1) : (start + j) % NumSeats \notin S
       IN (start + k) % NumSeats

activeSeats(pl) == { i \in Seats : pl[i].isActive }

\* C27: at hand start the one active seat is the first seat with a positive
\* stack clockwise from three seats after the dealer; after a street advance
\* that opens betting it is the first seat clockwise from the seat after the
\* dealer that is neither folded nor all-in.
C27_TurnOrder ==
  /\ []((lastOp.op = "start" /\ renderPending) =>
         activeSeats(players) =
           { clockwiseFirst({ i \in Seats :
                                players[i].chips + players[i].currentBet > 0 },
                            (DealerIdx(players) + 3) % NumSeats) })
  /\ [][(/\ Advanced
          /\ gameState.street \in { "preflop", "flop", "turn" }
          /\ Cardinality({ i \in Seats :
                             ~players[i].isFolded /\ players[i].chips > 0 }) >= 2) =>
          activeSeats(players') =
            { clockwiseFirst({ i \in Seats :
                                 ~players[i].isFolded /\ players[i].chips > 0 },
                             (DealerIdx(players) + 1) % NumSeats) }]_vars

\* a street has been opened and the seat after the dealer, folded or all-in,
\* was passed over
C27_Witness ==
  /\ lastOp.op = "advance" /\ renderPending
  /\ gameState.street \in { "flop", "turn", "river" }
  /\ ActiveIdx(players) # -1
  /\ ActiveIdx(players) # (DealerIdx(players) + 1) % NumSeats
  /\ players[(DealerIdx(players) + 1) % NumSeats].chips
       + players[(DealerIdx(players) + 1) % NumSeats].currentBet > 0

\* a hand has started whose seat three after the dealer is eliminated
C27_WitnessStart ==
  /\ lastOp.op = "start" /\ renderPending
  /\ players[(DealerIdx(players) + 3) % NumSeats].isFolded
  /\ ActiveIdx(players) # -1

\* C28 is about an active seat with zero stack.  Every site that makes a seat
\* active tests chips > 0, and a stack only shrinks in the update that also
\* deactivates the seat: no reachable state has such a seat.
activeSeatHoldsChips ==
  \A i \in Seats : players[i].isActive => players[i].chips > 0

\* C29: a seat with no stack at hand start gets no hole cards and starts
\* folded and marked as acted; through the hand a seat without hole cards
\* stays folded, acted and inactive, is not the hand's winner and gets no
\* chips.
C29_EliminatedSeatsOut ==
  /\ (lastOp.op = "start" /\ renderPending) =>
       \A i \in Seats :
         (players[i].chips + players[i].currentBet <= 0) <=>
           (players[i].cards = << >>)
  /\ \A i \in Seats :
       (players[i].cards = << >>) =>
         /\ players[i].isFolded /\ players[i].hasActed /\ ~players[i].isActive
         /\ players[i].chips = 0
         /\ handWinner # i

\* a hand with eliminated seats has been decided
C29_Witness ==
  /\ handWinner # -1 /\ replayMode
  /\ \E i \in Seats : players[i].cards = << >>
  /\ lastOp.op \in { "showdown", "foldout" }

\* C30: startNextHand moves the button to the first seat clockwise after the
\* previous dealer that holds a positive stack; the dealer of the hand it
\* deals holds a positive stack and is the only seat marked as dealer.
C30_ButtonRotation ==
  [][(handNumber' # handNumber /\ newGames' = newGames) =>
       /\ dealerIndex' =
            clockwiseFirst(stackHolders, (dealerIndex + 1) % NumSeats)
       /\ players'[dealerIndex'].chips > 0
       /\ { i \in Seats : players'[i].isDealer } = { dealerIndex' }]_vars

\* the blinds of the schedule for hand n of a game
scheduledBlinds(n) == currentBlinds((n - 1) \div handsPerLevel)

\* C31: the blinds posted and the table bet set at the start of hand n are
\* the schedule's entry min(floor((n - 1) / 5), 9), and the blind level of a
\* new hand is never below that of the hand before.
C31_BlindSchedule ==
  [][handNumber' = handNumber + 1 =>
       LET b == scheduledBlinds(handNumber')
           sb == (dealerIndex' + 1) % NumSeats
           bb == (dealerIndex' + 2) % NumSeats
           stack(i) == players[i].chips + players[i].currentBet
       IN /\ gameState'.currentBet = b.bb
          /\ stack(sb) >= b.sb => players'[sb].currentBet = b.sb
          /\ stack(bb) >= b.bb => players'[bb].currentBet = b.bb
          /\ blindLevel' >= blindLevel]_vars
\* every opponent that is to act scores 100 (200 in doubled scores)
premiumHeld ==
  \A i \in Seats \ { 0 } :
    players[i].isActive =>
      evaluateBoardStrength2(players[i].cards, gameState.communityCards) = 200

\* C32: every raise-to amount the opponent policy hands to processAction is
\* at most the acting seat's stack plus its commitment on the street.
C32_AiRaiseWithinStack ==
  [][(AiFires /\ Applied("raise")) =>
       LET p == players[lastOp'.seat]
       IN lastOp'.amount <= p.chips + p.currentBet]_vars

\* C33: the opponent policy checks only when the acting seat owes nothing
\* and folds or calls only when it owes a positive amount.
C33_AiActionLegal ==
  [][AiFires =>
       LET a == ActiveIdx(players)
           owed == gameState.currentBet - players[a].currentBet
       IN /\ Applied("check") => owed = 0
          /\ (Applied("fold") \/ Applied("call")) => owed > 0]_vars

\* C34: the count of hands the human player entered voluntarily grows by at
\* most one per hand, so it never exceeds the number of hands dealt (VPIP,
\* handsPlayed / handNumber, never exceeds 100 percent).
C34_VpipOncePerHand == playerStats.handsPlayed <= handNumber

\* the bonus of the best rank-multiplicity pattern among the cards, doubled
patternBonus2(cs) ==
  LET ofKind(n) == { r \in RankSet(cs) : RankCount(cs, r) >= n }
  IN IF ofKind(4) # {} THEN 160
     ELSE IF ofKind(3) # {} /\ Cardinality(ofKind(2)) >= 2 THEN 140
     ELSE IF ofKind(3) # {} THEN 100
     ELSE IF Cardinality(ofKind(2)) >= 2 THEN 60
     ELSE IF ofKind(2) # {} THEN 30
     ELSE 0

\* C35: on a non-empty board the strength is min(100, preflop strength +
\* pattern bonus + 60 for five cards of a suit + 55, once, for five ranks in
\* a row); on an empty board it is the preflop strength.  Scores are doubled.
C35_BoardStrengthFormula ==
  LET hole == evaluated.holeCards
      board == evaluated.communityCards
      allCards == hole \o board
      f == IF \E su \in 0 .. 3 : SuitCount(allCards, su) >= 5 THEN 120 ELSE 0
      st == IF StraightRuns(allCards) >= 1 THEN 110 ELSE 0
  IN Len(hole) = 2 =>
       evaluated.boardStrength =
         IF Len(board) = 0 THEN getHandStrength2(hole)
         ELSE Min(200, getHandStrength2(hole) + patternBonus2(allCards) + f + st)

\* C36: the stacks startNextHand starts the next hand with add up to the
\* total the hand before it was started with.
C36_CarryOverConserves ==
  [][handNumber' = handNumber + 1 =>
       TotalChips(players') + gameState'.pot = startChips]_vars

\* a step that deals community cards or resets a commitment or a hasActed
\* flag of a seat in the hand
streetMoved ==
  \/ Len(gameState'.communityCards) > Len(gameState.communityCards)
  \/ \E i \in Seats :
       /\ ~players[i].isFolded
       /\ \/ players[i].currentBet > 0 /\ players'[i].currentBet = 0
          \/ players[i].hasActed /\ ~players'[i].hasActed

\* every seat in the hand with chips has acted and matched the table bet
firstRoundComplete ==
  \A i \in Seats :
    (~players[i].isFolded /\ players[i].chips > 0) =>
      (players[i].hasActed /\ players[i].currentBet = gameState.currentBet)

\* C37: a street advance scheduled in one hand is never applied to another:
\* in the first betting round of a hand started by startNewGame or
\* startNextHand a timer deals no card and resets no commitment or hasActed
\* flag until that round is complete.
C37_AdvanceStaysInHand ==
  [][(Advanced /\ gameState.street = "preflop"
        /\ Len(gameState.communityCards) = 0 /\ ~firstRoundComplete) =>
       ~streetMoved]_vars

\* a step of processAction or of an auto-skip
BettingStep ==
  /\ ~renderPending /\ renderPending'
  /\ lastOp'.op \in { "fold", "check", "call", "raise", "skip" }

\* C38: no fold, check, call, raise or auto-skip raises a seat's stack or
\* lowers a seat's commitment on the street.
C38_NoChipsBack ==
  [][BettingStep =>
       \A i \in Seats :
         /\ players'[i].chips <= players[i].chips
         /\ players'[i].currentBet >= players[i].currentBet]_vars

\* C39: on a betting street of an unresolved hand the table bet is at least
\* every seat's commitment on that street.
C39_TableBetCoversCommitments ==
  (gameStarted /\ handWinner = -1 /\ gameState.street # "showdown") =>
    \A i \in Seats : players[i].currentBet <= gameState.currentBet

\* a step within one hand in which chips leave the pot
PotPaid ==
  /\ gameState'.pot < gameState.pot
  /\ handNumber' = handNumber /\ newGames' = newGames

\* C40: in each hand the pot is paid out at most once and to exactly one
\* seat: the payment resolves an unresolved hand, empties the pot, adds it
\* to the winner's stack and leaves every other stack alone; a resolved hand
\* keeps its winner.
C40_PotAwardedOnce ==
  [][/\ PotPaid =>
          /\ handWinner = -1
          /\ handWinner' \in Seats
          /\ ~players[handWinner'].isFolded
          /\ gameState'.pot = 0
          /\ \A i \in Seats :
               players'[i].chips =
                 players[i].chips + (IF i = handWinner' THEN gameState.pot ELSE 0)
     /\ (handWinner # -1 /\ handNumber' = handNumber /\ newGames' = newGames) =>
          handWinner' = handWinner]_vars

\* a showdown between two or more seats has paid the pot
C40_Witness ==
  /\ lastOp.op = "showdown"
  /\ handWinner # -1 /\ gameState.pot = 0
  /\ Cardinality(nonFolded(players)) >= 2

\* chips entered the pot of a hand that was already resolved
C40_WitnessLate == handWinner # -1 /\ gameState.pot > 0
====
